---------------------------- MODULE Spec2Model ----------------------------
(***************************************************************************)
(* Model of the ASPASIA pilot policy engine (aspasia-pilot/main.py):       *)
(* the condition AST, the rule loader, PolicyEngine.evaluate and the two   *)
(* HTTP handlers enforce_policy and update_policy that share the global    *)
(* engine and the STATS counters.                                          *)
(***************************************************************************)
EXTENDS Integers, Sequences, FiniteSets, TLC

(***************************************************************************)
(* Bounds of the model.                                                    *)
(***************************************************************************)
\* longest rule document posted to update_policy
MaxRules == 2
\* number of enforce calls that complete with a decision
MaxProcessed == 1

(***************************************************************************)
(* Python values.  Every value carries its type tag t; v is the payload.   *)
(* dict payloads are records (<<>> is the empty dict), list payloads are   *)
(* sequences.                                                              *)
(***************************************************************************)
None == [t |-> "none", v |-> ""]
Bool(b) == [t |-> "bool", v |-> b]
Num(n) == [t |-> "num", v |-> n]
Str(s) == [t |-> "str", v |-> s]
Dict(d) == [t |-> "dict", v |-> d]
List(l) == [t |-> "list", v |-> l]
EmptyDict == [t |-> "dict", v |-> <<>>]

\* bool is a subclass of int: True == 1, False == 0
IsNumeric(a) == a.t \in {"num", "bool"}
NumOf(a) == IF a.t = "bool" THEN (IF a.v THEN 1 ELSE 0) ELSE a.v

\* Python truthiness, as used by `r.get("when") or {...}`
Truthy(a) ==
    CASE a.t = "none" -> FALSE
      [] a.t = "bool" -> a.v
      [] a.t = "num"  -> a.v # 0
      [] a.t = "str"  -> a.v # ""
      [] a.t = "dict" -> DOMAIN a.v # {}
      [] a.t = "list" -> Len(a.v) > 0

\* The strings of the model in Python's (code point) order; str < str and
\* the sort key of evaluate compare by position in this sequence.
StrOrder ==
    << "EUR", "USD", "allow_large", "audit_kyc", "block_large",
       "block_unhosted_wallets", "default_allow", "deny_usd", "flag_eur",
       "flag_high_value_eur", "no_action", "no_value", "prio_high", "probe" >>
StrRank(s) == CHOOSE i \in 1..Len(StrOrder) : StrOrder[i] = s
StrLess(a, b) == StrRank(a) < StrRank(b)

\* outcome of a Python expression: a value, or a raised exception
Ok(x) == [err |-> "", val |-> x]
Raise(e) == [err |-> e, val |-> FALSE]
Raised(o) == o.err # ""

\* v == w
PyEq(v, w) ==
    IF IsNumeric(v) /\ IsNumeric(w) THEN NumOf(v) = NumOf(w)
    ELSE IF v.t # w.t THEN FALSE
    ELSE IF v.t = "none" THEN TRUE
    ELSE v.v = w.v

\* v < w ; ordering is defined between numbers and between strings only
PyLt(v, w) ==
    IF IsNumeric(v) /\ IsNumeric(w) THEN Ok(NumOf(v) < NumOf(w))
    ELSE IF v.t = "str" /\ w.t = "str" THEN Ok(StrLess(v.v, w.v))
    ELSE Raise("TypeError: '<' not supported")

\* v > w
PyGt(v, w) ==
    IF IsNumeric(v) /\ IsNumeric(w) THEN Ok(NumOf(v) > NumOf(w))
    ELSE IF v.t = "str" /\ w.t = "str" THEN Ok(StrLess(w.v, v.v))
    ELSE Raise("TypeError: '>' not supported")

\* v in w ; the strings of the model are not substrings of one another, so
\* str in str is equality
PyIn(v, w) ==
    CASE w.t = "list" -> Ok(\E i \in 1..Len(w.v) : PyEq(v, w.v[i]))
      [] w.t = "dict" ->
            IF v.t \in {"dict", "list"} THEN Raise("TypeError: unhashable type")
            ELSE Ok(v.t = "str" /\ v.v \in DOMAIN w.v)
      [] w.t = "str" ->
            IF v.t = "str" THEN Ok(v.v = w.v)
            ELSE Raise("TypeError: 'in <string>' requires string")
      [] OTHER -> Raise("TypeError: argument is not iterable")

\* self.field.split("."), on the field names of the model
split(field) ==
    CASE field = "originator.kyc" -> << "originator", "kyc" >>
      [] field = "beneficiary.kyc" -> << "beneficiary", "kyc" >>
      [] field = "amount.unit" -> << "amount", "unit" >>
      [] OTHER -> << field >>

(***************************************************************************)
(* Condition and CompositeCondition                                        *)
(***************************************************************************)
Condition(field, op, value) ==
    [kind |-> "Condition", field |-> field, op |-> op, value |-> value]
CompositeCondition(mode, children) ==
    [kind |-> "CompositeCondition", mode |-> mode, children |-> children]

RECURSIVE walk(_, _, _)
walk(current, parts, i) ==
    IF i > Len(parts) THEN current
    ELSE IF current.t # "dict" \/ parts[i] \notin DOMAIN current.v THEN None
    ELSE walk(current.v[parts[i]], parts, i + 1)

\* Condition._get_nested
get_nested(c, tx) == walk(tx, split(c.field), 1)

\* an eval that applies the operator before it looks at the value found
Condition_eval_OperatorFirst(c, tx) ==
    LET v == get_nested(c, tx) IN
    IF c.op = "gt" THEN PyGt(v, c.value)
    ELSE IF c.op = "lt" THEN PyLt(v, c.value)
    ELSE IF c.op = "eq" THEN Ok(PyEq(v, c.value))
    ELSE IF c.op = "in" THEN PyIn(v, c.value)
    ELSE Raise("ValueError: Unknown operator")

\* Condition.eval
Condition_eval(c, tx) ==
    LET v == get_nested(c, tx) IN
    IF v.t = "none" THEN Ok(FALSE)
    ELSE IF c.op = "gt" THEN PyGt(v, c.value)
    ELSE IF c.op = "lt" THEN PyLt(v, c.value)
    ELSE IF c.op = "eq" THEN Ok(PyEq(v, c.value))
    ELSE IF c.op = "in" THEN PyIn(v, c.value)
    ELSE Raise("ValueError: Unknown operator")

RECURSIVE Node_eval(_, _)
RECURSIVE all_children(_, _, _)
RECURSIVE any_children(_, _, _)

\* all(child.eval(tx) for child in self.children): stops at the first false
\* child, a child that raises ends the evaluation
all_children(children, tx, i) ==
    IF i > Len(children) THEN Ok(TRUE)
    ELSE LET r == Node_eval(children[i], tx) IN
         IF Raised(r) THEN r
         ELSE IF ~r.val THEN Ok(FALSE)
         ELSE all_children(children, tx, i + 1)

\* any(child.eval(tx) for child in self.children): stops at the first true
\* child
any_children(children, tx, i) ==
    IF i > Len(children) THEN Ok(FALSE)
    ELSE LET r == Node_eval(children[i], tx) IN
         IF Raised(r) THEN r
         ELSE IF r.val THEN Ok(TRUE)
         ELSE any_children(children, tx, i + 1)

\* CompositeCondition.eval
CompositeCondition_eval(n, tx) ==
    IF n.mode = "all" THEN all_children(n.children, tx, 1)
    ELSE any_children(n.children, tx, 1)

\* rule.root.eval(tx), dispatched on the node's class
Node_eval(n, tx) ==
    IF n.kind = "Condition" THEN Condition_eval(n, tx)
    ELSE CompositeCondition_eval(n, tx)

(***************************************************************************)
(* Rule loader.  A rule document is the value yaml.safe_load returns: a    *)
(* list of mappings.  Field names and operators of the documents of the    *)
(* model are strings, as are rule names and actions.                       *)
(***************************************************************************)
Rule(name, root, action, priority) ==
    [name |-> name, root |-> root, action |-> action, priority |-> priority]

\* int(x)
PyInt(a) ==
    CASE a.t = "num"  -> Ok(a.v)
      [] a.t = "bool" -> Ok(NumOf(a))
      [] a.t = "str"  ->
            IF a.v = "7" THEN Ok(7)
            ELSE Raise("ValueError: invalid literal for int()")
      [] OTHER -> Raise("TypeError: int() argument")

RECURSIVE build_node(_)
RECURSIVE build_children(_, _, _)

\* [build_node(child) for child in spec[mode]]
build_children(kids, i, acc) ==
    IF i > Len(kids) THEN Ok(acc)
    ELSE LET n == build_node(kids[i]) IN
         IF Raised(n) THEN n
         ELSE build_children(kids, i + 1, Append(acc, n.val))

build_node(spec) ==
    IF spec.t # "dict" THEN Raise("TypeError: spec is not a mapping")
    ELSE IF "all" \in DOMAIN spec.v \/ "any" \in DOMAIN spec.v THEN
        LET mode == IF "all" \in DOMAIN spec.v THEN "all" ELSE "any"
            kids == spec.v[mode]
        IN  IF kids.t # "list" THEN Raise("TypeError: children is not a list")
            ELSE LET ch == build_children(kids.v, 1, << >>) IN
                 IF Raised(ch) THEN ch
                 ELSE Ok(CompositeCondition(mode, ch.val))
    ELSE IF "field" \notin DOMAIN spec.v THEN Raise("KeyError: 'field'")
    ELSE IF "op" \notin DOMAIN spec.v THEN Raise("KeyError: 'op'")
    ELSE IF "value" \notin DOMAIN spec.v THEN Raise("KeyError: 'value'")
    ELSE Ok(Condition(spec.v.field.v, spec.v.op.v, spec.v.value))

\* the node substituted for an absent or empty `when`
always_spec ==
    Dict([field |-> Str("__always__"), op |-> Str("eq"), value |-> Bool(TRUE)])

\* r.get("when") or {"field": "__always__", "op": "eq", "value": True}
when_spec(r) ==
    LET w == IF "when" \in DOMAIN r.v THEN r.v.when ELSE None IN
    IF Truthy(w) THEN w ELSE always_spec

\* one iteration of the loop: Rule(name=..., root=..., action=..., priority=...)
load_rule(r) ==
    IF r.t # "dict" THEN Raise("AttributeError: 'get'")
    ELSE IF "name" \notin DOMAIN r.v THEN Raise("KeyError: 'name'")
    ELSE LET root == build_node(when_spec(r)) IN
         IF Raised(root) THEN root
         ELSE IF "action" \notin DOMAIN r.v THEN Raise("KeyError: 'action'")
         ELSE LET p == PyInt(IF "priority" \in DOMAIN r.v
                             THEN r.v.priority ELSE Num(0)) IN
              IF Raised(p) THEN p
              ELSE Ok(Rule(r.v.name.v, root.val, r.v.action.v, p.val))

RECURSIVE load_loop(_, _, _)
load_loop(raw, i, rules) ==
    IF i > Len(raw) THEN Ok(rules)
    ELSE LET r == load_rule(raw[i]) IN
         IF Raised(r) THEN r
         ELSE load_loop(raw, i + 1, Append(rules, r.val))

\* load_rules_from_yaml, applied to the parsed document
load_rules_from_yaml(raw) ==
    IF raw.t # "list" THEN Raise("TypeError: document is not iterable")
    ELSE load_loop(raw.v, 1, << >>)

(***************************************************************************)
(* PolicyEngine                                                            *)
(***************************************************************************)
action_rank == [block |-> 2, flag |-> 1, allow |-> 0]

PolicyEngine(rules) == [rules |-> rules]

\* the sort key (-r.priority, r.name), compared as Python compares tuples
SortKeyLess(a, b) ==
    \/ (0 - a.priority) < (0 - b.priority)
    \/ a.priority = b.priority /\ a.name # b.name /\ StrLess(a.name, b.name)

\* sorted() is stable: a rule goes before the first rule whose key is larger
insert(ordered, r) ==
    IF \E j \in 1..Len(ordered) : SortKeyLess(r, ordered[j])
    THEN LET j == CHOOSE k \in 1..Len(ordered) :
                      /\ SortKeyLess(r, ordered[k])
                      /\ \A m \in 1..(k - 1) : ~SortKeyLess(r, ordered[m])
         IN  SubSeq(ordered, 1, j - 1) \o << r >> \o SubSeq(ordered, j, Len(ordered))
    ELSE Append(ordered, r)

RECURSIVE sorted_from(_, _, _)
sorted_from(rules, i, acc) ==
    IF i > Len(rules) THEN acc
    ELSE sorted_from(rules, i + 1, insert(acc, rules[i]))

\* a loop over the rules as they were loaded
sorted_AsLoaded(rules) == rules

\* sorted(self.rules, key=lambda r: (-r.priority, r.name))
sorted(rules) == sorted_from(rules, 1, << >>)

\* a resolution that ranks by priority before severity
MaxKeyLess_PriorityFirst(a, b) ==
    \/ a.priority < b.priority
    \/ a.priority = b.priority /\ action_rank[a.action] < action_rank[b.action]

\* the key (self.action_rank[r.action], r.priority) of max()
MaxKeyLess(a, b) ==
    \/ action_rank[a.action] < action_rank[b.action]
    \/ action_rank[a.action] = action_rank[b.action] /\ a.priority < b.priority

\* a maximum that keeps the last of the maximal elements
RECURSIVE max_from_LastMaximal(_, _, _)
max_from_LastMaximal(matched, i, best) ==
    IF i > Len(matched) THEN best
    ELSE max_from_LastMaximal(matched, i + 1,
                  IF MaxKeyLess(matched[i], best) THEN best ELSE matched[i])

RECURSIVE max_from(_, _, _)
max_from(matched, i, best) ==
    IF i > Len(matched) THEN best
    ELSE max_from(matched, i + 1,
                  IF MaxKeyLess(best, matched[i]) THEN matched[i] ELSE best)

\* max(matched, key=...): the first of the maximal elements; the key of
\* every element is computed, so an action without a rank raises KeyError
max_matched(matched) ==
    IF \E i \in 1..Len(matched) : matched[i].action \notin DOMAIN action_rank
    THEN Raise("KeyError: action_rank")
    ELSE Ok(max_from(matched, 2, matched[1]))

\* a loop that appends every rule to matched, whatever its result
RECURSIVE eval_loop_AppendAll(_, _, _, _, _)
eval_loop_AppendAll(ordered, tx, i, trace, matched) ==
    IF i > Len(ordered) THEN Ok([trace |-> trace, matched |-> matched])
    ELSE LET result == Node_eval(ordered[i].root, tx) IN
         IF Raised(result) THEN result
         ELSE eval_loop_AppendAll(ordered, tx, i + 1,
                        Append(trace, [rule |-> ordered[i].name, result |-> result.val]),
                        Append(matched, ordered[i]))

\* a loop that takes a condition that raises for a rule that did not match
RECURSIVE eval_loop_Swallow(_, _, _, _, _)
eval_loop_Swallow(ordered, tx, i, trace, matched) ==
    IF i > Len(ordered) THEN Ok([trace |-> trace, matched |-> matched])
    ELSE LET result == Node_eval(ordered[i].root, tx)
             hit == ~Raised(result) /\ result.val
         IN  eval_loop_Swallow(ordered, tx, i + 1,
                        Append(trace, [rule |-> ordered[i].name, result |-> hit]),
                        IF hit THEN Append(matched, ordered[i]) ELSE matched)

\* a loop that puts each matched rule at the head of matched
RECURSIVE eval_loop_MatchedFirst(_, _, _, _, _)
eval_loop_MatchedFirst(ordered, tx, i, trace, matched) ==
    IF i > Len(ordered) THEN Ok([trace |-> trace, matched |-> matched])
    ELSE LET result == Node_eval(ordered[i].root, tx) IN
         IF Raised(result) THEN result
         ELSE eval_loop_MatchedFirst(ordered, tx, i + 1,
                        Append(trace, [rule |-> ordered[i].name, result |-> result.val]),
                        IF result.val THEN << ordered[i] >> \o matched ELSE matched)

\* the for loop of evaluate: trace and matched so far, or the exception
RECURSIVE eval_loop(_, _, _, _, _)
eval_loop(ordered, tx, i, trace, matched) ==
    IF i > Len(ordered) THEN Ok([trace |-> trace, matched |-> matched])
    ELSE LET result == Node_eval(ordered[i].root, tx) IN
         IF Raised(result) THEN result
         ELSE eval_loop(ordered, tx, i + 1,
                        Append(trace, [rule |-> ordered[i].name, result |-> result.val]),
                        IF result.val THEN Append(matched, ordered[i]) ELSE matched)

names(rs) == [i \in 1..Len(rs) |-> rs[i].name]

\* PolicyEngine.evaluate
evaluate(self, tx) ==
    LET loop == eval_loop(sorted(self.rules), tx, 1, << >>, << >>) IN
    IF Raised(loop) THEN loop
    ELSE LET matched == loop.val.matched IN
         IF Len(matched) = 0
         THEN Ok([decision |-> "allow", rule |-> None,
                  matched_rules |-> << >>, trace |-> loop.val.trace])
         ELSE LET chosen == max_matched(matched) IN
              IF Raised(chosen) THEN chosen
              ELSE Ok([decision |-> chosen.val.action,
                       rule |-> Str(chosen.val.name),
                       matched_rules |-> names(matched),
                       trace |-> loop.val.trace])

(***************************************************************************)
(* Inputs: rule specifications and requests                                *)
(***************************************************************************)
Cond(field, op, value) ==
    Dict([field |-> Str(field), op |-> Str(op), value |-> value])

\* DEFAULT_RULES, as parsed by yaml.safe_load
block_unhosted_wallets ==
    Dict([name |-> Str("block_unhosted_wallets"),
          when |-> Cond("originator.kyc", "eq", Bool(FALSE)),
          action |-> Str("block"), priority |-> Num(20)])
flag_high_value_eur ==
    Dict([name |-> Str("flag_high_value_eur"),
          when |-> Dict([all |-> List(<< Cond("amount", "gt", Num(100000)),
                                         Cond("currency", "eq", Str("EUR")) >>)]),
          action |-> Str("flag"), priority |-> Num(10)])
default_allow ==
    Dict([name |-> Str("default_allow"), when |-> EmptyDict,
          action |-> Str("allow"), priority |-> Num(0)])
DEFAULT_RULES ==
    List(<< block_unhosted_wallets, flag_high_value_eur, default_allow >>)

\* further rule specifications an administrator may post
\* an operator the engine does not know; priority absent
audit_kyc ==
    Dict([name |-> Str("audit_kyc"),
          when |-> Cond("originator.kyc", "ne", Bool(TRUE)),
          action |-> Str("flag")])
\* an action without severity rank; priority given as a string of digits
deny_usd ==
    Dict([name |-> Str("deny_usd"),
          when |-> Cond("currency", "in", List(<< Str("USD") >>)),
          action |-> Str("deny"), priority |-> Str("7")])
\* second child compares a string with a number
allow_large ==
    Dict([name |-> Str("allow_large"),
          when |-> Dict([any |-> List(<< Cond("amount", "gt", Num(1000)),
                                         Cond("currency", "gt", Num(100)) >>)]),
          action |-> Str("allow"), priority |-> Num(30)])
\* malformed: no name
no_name ==
    Dict([when |-> EmptyDict, action |-> Str("allow")])
\* malformed: no action
no_action ==
    Dict([name |-> Str("no_action"), priority |-> Num(1)])
\* malformed: priority is not a number
prio_high ==
    Dict([name |-> Str("prio_high"), action |-> Str("block"),
          priority |-> Str("high")])
\* malformed: condition without value
no_value ==
    Dict([name |-> Str("no_value"),
          when |-> Dict([field |-> Str("amount"), op |-> Str("gt")]),
          action |-> Str("flag")])

\* the specifications update_policy is posted; default_allow is part of
\* DEFAULT_RULES only
RulePool ==
    << block_unhosted_wallets, flag_high_value_eur, audit_kyc, deny_usd,
       allow_large, no_name, no_action, prio_high, no_value >>

\* TransactionRequest.dict()
TransactionRequest(id, originator, amount, currency) ==
    Dict([id |-> Str(id), originator |-> originator, beneficiary |-> EmptyDict,
          amount |-> Num(amount), currency |-> Str(currency),
          context |-> Str("Standard")])

Kyc(b) == Dict([kyc |-> Bool(b)])

Requests ==
    << TransactionRequest("tx1", Kyc(FALSE), 5000, "EUR"),
       TransactionRequest("tx2", Kyc(TRUE), 15000, "EUR"),
       TransactionRequest("tx3", Kyc(TRUE), 250000, "EUR"),
       TransactionRequest("tx4", EmptyDict, 500, "USD"),
       TransactionRequest("tx5", Kyc(FALSE), 250000, "EUR") >>

(***************************************************************************)
(* State                                                                   *)
(***************************************************************************)
\* engine: the global PolicyEngine; STATS: the global counters;
\* tx_data, result: the transaction of the last enforce_policy call and what
\* engine.evaluate returned or raised for it; response: what the last
\* handler answered; threads: the local variables of the threadpool workers
\* that run the handlers concurrently (see "Concurrent handlers" below)
VARIABLES engine, STATS, tx_data, result, response, threads

vars == << engine, STATS, tx_data, result, response, threads >>

\* str.upper() on the decisions
upper(decision) ==
    CASE decision = "allow" -> "ALLOW"
      [] decision = "block" -> "BLOCK"
      [] decision = "flag"  -> "FLAG"

NoCall == [op |-> "none", status |-> 0]

\* the workers of the threadpool that runs the handlers
Threads == {"worker_1", "worker_2"}

\* a worker between two calls; returned counts the enforce_policy calls it
\* answered with a decision
Idle(returned) ==
    [pc |-> "idle", tx |-> None, self |-> PolicyEngine(<< >>), ordered |-> << >>,
     i |-> 0, trace |-> << >>, matched |-> << >>, result |-> None,
     loaded |-> 0, new_rules |-> << >>, returned |-> returned]

Init ==
    /\ engine = PolicyEngine(load_rules_from_yaml(DEFAULT_RULES).val)
    /\ STATS = [total_processed |-> 0,
                decisions |-> [BLOCK |-> 0, FLAG |-> 0, ALLOW |-> 0]]
    /\ tx_data = None
    /\ result = Ok(None)
    /\ response = NoCall
    /\ threads = [t \in Threads |-> Idle(0)]

\* an enforce whose evaluate sorts self.rules in place
enforce_policy_SortInPlace(tx) ==
    \E r \in { evaluate(engine, tx) } :
    /\ Raised(r) \/ STATS.total_processed < MaxProcessed
    /\ tx_data' = tx
    /\ result' = r
    /\ IF ~Raised(r)
       THEN LET decision_key == upper(r.val.decision) IN
            /\ STATS' = [total_processed |-> STATS.total_processed + 1,
                         decisions |-> [STATS.decisions EXCEPT
                                           ![decision_key] = @ + 1]]
            /\ response' = [op |-> "enforce", status |-> 200,
                            decision |-> decision_key,
                            rule_applied |-> r.val.rule,
                            trace_id |-> << "trace_", tx.v.id.v, "_secure" >>]
       ELSE /\ STATS' = STATS
            /\ response' = [op |-> "enforce", status |-> 500, detail |-> r.err]
    /\ engine' = PolicyEngine(sorted(engine.rules))
    /\ UNCHANGED threads

\* POST /enforce
enforce_policy(tx) ==
    \E r \in { evaluate(engine, tx) } :
    /\ Raised(r) \/ STATS.total_processed < MaxProcessed
    /\ tx_data' = tx
    /\ result' = r
    /\ IF ~Raised(r)
       THEN LET decision_key == upper(r.val.decision) IN
            /\ STATS' = [total_processed |-> STATS.total_processed + 1,
                         decisions |-> [STATS.decisions EXCEPT
                                           ![decision_key] = @ + 1]]
            /\ response' = [op |-> "enforce", status |-> 200,
                            decision |-> decision_key,
                            rule_applied |-> r.val.rule,
                            trace_id |-> << "trace_", tx.v.id.v, "_secure" >>]
       ELSE /\ STATS' = STATS
            /\ response' = [op |-> "enforce", status |-> 500, detail |-> r.err]
    /\ UNCHANGED << engine, threads >>

\* the rules built before the loader raised
RECURSIVE loaded_prefix(_, _, _)
loaded_prefix(raw, i, rules) ==
    IF i > Len(raw) THEN rules
    ELSE LET r == load_rule(raw[i]) IN
         IF Raised(r) THEN rules
         ELSE loaded_prefix(raw, i + 1, Append(rules, r.val))

\* an update that fills the active engine while it loads, so that a failed
\* load leaves the rules built so far installed
update_policy_Partial(yaml_rules) ==
    \E new_rules \in { load_rules_from_yaml(yaml_rules) } :
    /\ IF ~Raised(new_rules)
       THEN /\ engine' = PolicyEngine(new_rules.val)
            /\ response' = [op |-> "update", status |-> 200,
                            rule_count |-> Len(new_rules.val)]
       ELSE /\ engine' = PolicyEngine(IF yaml_rules.t = "list"
                                      THEN loaded_prefix(yaml_rules.v, 1, << >>)
                                      ELSE << >>)
            /\ response' = [op |-> "update", status |-> 400,
                            detail |-> new_rules.err]
    /\ tx_data' = None
    /\ result' = Ok(None)
    /\ UNCHANGED << STATS, threads >>

\* POST /admin/update_policy
update_policy(yaml_rules) ==
    \E new_rules \in { load_rules_from_yaml(yaml_rules) } :
    /\ IF ~Raised(new_rules)
       THEN /\ engine' = PolicyEngine(new_rules.val)
            /\ response' = [op |-> "update", status |-> 200,
                            rule_count |-> Len(new_rules.val)]
       ELSE /\ engine' = engine
            /\ response' = [op |-> "update", status |-> 400,
                            detail |-> new_rules.err]
    /\ tx_data' = None
    /\ result' = Ok(None)
    /\ UNCHANGED << STATS, threads >>

\* the documents posted to update_policy: an empty body, or up to MaxRules
\* rule specifications in any order, repetitions included
Documents ==
    { None } \cup
    UNION { { List([i \in 1..n |-> RulePool[ix[i]]]) :
                ix \in [1..n -> 1..Len(RulePool)] } : n \in 0..MaxRules }

Next ==
    \/ \E i \in 1..Len(Requests) : enforce_policy(Requests[i])
    \/ \E doc \in Documents : update_policy(doc)

Spec == Init /\ [][Next]_vars

(***************************************************************************)
(* Concurrent handlers                                                     *)
(***************************************************************************)
\* enforce_policy and update_policy are plain `def` handlers, which the
\* framework runs on the workers of a threadpool: their statements
\* interleave. A PolicyEngine object is never modified after its
\* construction, so a worker's reference to one is modelled by its value.
\* The steps below are those between which another worker can run: the read
\* of the global engine, the copy that sorted() takes of self.rules, each
\* iteration of the loop, and the load and the store of each `+= 1`.

\* the enforce_policy calls admitted in a run
MaxCalls == 2

\* the transactions and the documents the concurrent clients post
ConcRequests == << Requests[1], Requests[4] >>
ConcDocuments ==
    << DEFAULT_RULES,
       List(<< allow_large, block_unhosted_wallets >>),
       List(<< flag_high_value_eur, no_name >>) >>

EvaluatePcs == {"evaluate", "loop"}
CountPcs == {"load_total", "store_total", "load_decision", "store_decision"}

RECURSIVE SumReturned(_)
SumReturned(S) ==
    IF S = {} THEN 0
    ELSE LET t == CHOOSE x \in S : TRUE IN
         threads[t].returned + SumReturned(S \ {t})

\* the enforce_policy calls that are running
Running == { t \in Threads : threads[t].pc \in EvaluatePcs \cup CountPcs }

\* enforce_policy is entered and reads the global for engine.evaluate(tx_data)
enforce_call(t, tx) ==
    /\ threads[t].pc = "idle"
    /\ SumReturned(Threads) + Cardinality(Running) < MaxCalls
    /\ threads' = [threads EXCEPT ![t] =
                      [@ EXCEPT !.pc = "evaluate", !.tx = tx, !.self = engine]]
    /\ UNCHANGED << engine, STATS, tx_data, result, response >>

\* trace, matched = [], []; ordered = sorted(self.rules, ...)
evaluate_sorted(t) ==
    /\ threads[t].pc = "evaluate"
    /\ threads' = [threads EXCEPT ![t] =
                      [@ EXCEPT !.pc = "loop",
                                !.ordered = sorted(threads[t].self.rules),
                                !.i = 1, !.trace = << >>, !.matched = << >>]]
    /\ UNCHANGED << engine, STATS, tx_data, result, response >>

\* an iteration that takes its rule from the global engine as it is now,
\* not from the list sorted at the start of the call
evaluate_rule_Global(t) ==
    /\ threads[t].pc = "loop"
    /\ threads[t].i <= Len(threads[t].ordered)
    /\ \E now \in { sorted(engine.rules) } :
       IF threads[t].i > Len(now)
       THEN threads' = [threads EXCEPT ![t] = Idle(@.returned)]
       ELSE \E res \in { Node_eval(now[threads[t].i].root, threads[t].tx) } :
            IF Raised(res)
            THEN threads' = [threads EXCEPT ![t] = Idle(@.returned)]
            ELSE threads' = [threads EXCEPT ![t] =
                    [@ EXCEPT !.i = @ + 1,
                              !.trace = Append(@, [rule |-> now[threads[t].i].name,
                                                   result |-> res.val]),
                              !.matched = IF res.val
                                          THEN Append(@, now[threads[t].i])
                                          ELSE @]]
    /\ UNCHANGED << engine, STATS, tx_data, result, response >>

\* one iteration of `for rule in ordered`; an exception of rule.root.eval
\* leaves evaluate and enforce_policy, which answers 500
evaluate_rule(t) ==
    /\ threads[t].pc = "loop"
    /\ threads[t].i <= Len(threads[t].ordered)
    /\ \E res \in { Node_eval(threads[t].ordered[threads[t].i].root, threads[t].tx) } :
       IF Raised(res)
       THEN threads' = [threads EXCEPT ![t] = Idle(@.returned)]
       ELSE threads' = [threads EXCEPT ![t] =
               [@ EXCEPT !.i = @ + 1,
                         !.trace = Append(@, [rule |-> threads[t].ordered[threads[t].i].name,
                                              result |-> res.val]),
                         !.matched = IF res.val
                                     THEN Append(@, threads[t].ordered[threads[t].i])
                                     ELSE @]]
    /\ UNCHANGED << engine, STATS, tx_data, result, response >>

\* the statements after the loop: the result evaluate returns
evaluate_return(t) ==
    /\ threads[t].pc = "loop"
    /\ threads[t].i > Len(threads[t].ordered)
    /\ LET matched == threads[t].matched IN
       IF Len(matched) = 0
       THEN threads' = [threads EXCEPT ![t] =
               [@ EXCEPT !.pc = "load_total",
                         !.result = [decision |-> "allow", rule |-> None,
                                     matched_rules |-> << >>,
                                     trace |-> threads[t].trace]]]
       ELSE \E chosen \in { max_matched(matched) } :
            IF Raised(chosen)
            THEN threads' = [threads EXCEPT ![t] = Idle(@.returned)]
            ELSE threads' = [threads EXCEPT ![t] =
                    [@ EXCEPT !.pc = "load_total",
                              !.result = [decision |-> chosen.val.action,
                                          rule |-> Str(chosen.val.name),
                                          matched_rules |-> names(matched),
                                          trace |-> threads[t].trace]]]
    /\ UNCHANGED << engine, STATS, tx_data, result, response >>

\* STATS["total_processed"] += 1: the load of the item
stats_total_load(t) ==
    /\ threads[t].pc = "load_total"
    /\ threads' = [threads EXCEPT ![t] =
                      [@ EXCEPT !.pc = "store_total",
                                !.loaded = STATS.total_processed]]
    /\ UNCHANGED << engine, STATS, tx_data, result, response >>

\* STATS["total_processed"] += 1: the store of the sum
stats_total_store(t) ==
    /\ threads[t].pc = "store_total"
    /\ STATS' = [STATS EXCEPT !.total_processed = threads[t].loaded + 1]
    /\ threads' = [threads EXCEPT ![t] = [@ EXCEPT !.pc = "load_decision"]]
    /\ UNCHANGED << engine, tx_data, result, response >>

\* STATS["decisions"][decision_key] += 1: the load of the item
stats_decision_load(t) ==
    /\ threads[t].pc = "load_decision"
    /\ threads' = [threads EXCEPT ![t] =
                      [@ EXCEPT !.pc = "store_decision",
                                !.loaded = STATS.decisions[upper(threads[t].result.decision)]]]
    /\ UNCHANGED << engine, STATS, tx_data, result, response >>

\* STATS["decisions"][decision_key] += 1: the store of the sum; the call
\* then returns its decision
stats_decision_store(t) ==
    /\ threads[t].pc = "store_decision"
    /\ STATS' = [STATS EXCEPT !.decisions[upper(threads[t].result.decision)] =
                                  threads[t].loaded + 1]
    /\ threads' = [threads EXCEPT ![t] = Idle(@.returned + 1)]
    /\ UNCHANGED << engine, tx_data, result, response >>

\* update_policy is entered and builds new_rules; a document that does not
\* load is answered 400 and nothing is changed
update_load(t, yaml_rules) ==
    /\ threads[t].pc = "idle"
    /\ \E new_rules \in { load_rules_from_yaml(yaml_rules) } :
       IF Raised(new_rules)
       THEN threads' = threads
       ELSE threads' = [threads EXCEPT ![t] =
               [@ EXCEPT !.pc = "install", !.new_rules = new_rules.val]]
    /\ UNCHANGED << engine, STATS, tx_data, result, response >>

\* engine = PolicyEngine(new_rules): the global is bound to the new object
update_install(t) ==
    /\ threads[t].pc = "install"
    /\ engine' = PolicyEngine(threads[t].new_rules)
    /\ threads' = [threads EXCEPT ![t] = Idle(@.returned)]
    /\ UNCHANGED << STATS, tx_data, result, response >>

NextConc ==
    \E t \in Threads :
       \/ \E k \in 1..Len(ConcRequests) : enforce_call(t, ConcRequests[k])
       \/ evaluate_sorted(t)
       \/ evaluate_rule(t)
       \/ evaluate_return(t)
       \/ stats_total_load(t)
       \/ stats_total_store(t)
       \/ stats_decision_load(t)
       \/ stats_decision_store(t)
       \/ \E d \in 1..Len(ConcDocuments) : update_load(t, ConcDocuments[d])
       \/ update_install(t)

SpecConc == Init /\ [][NextConc]_vars

(***************************************************************************)
(* Rule sets with ties and with conditions on absent fields                *)
(***************************************************************************)
\* rules that tie in action and priority with a rule of another name
block_large ==
    Dict([name |-> Str("block_large"),
          when |-> Cond("amount", "gt", Num(100000)),
          action |-> Str("block"), priority |-> Num(20)])
flag_eur ==
    Dict([name |-> Str("flag_eur"),
          when |-> Cond("currency", "eq", Str("EUR")),
          action |-> Str("flag"), priority |-> Num(10)])

TiePool ==
    << block_unhosted_wallets, block_large, flag_high_value_eur, flag_eur >>

\* up to MaxRules rule specifications of TiePool in any order
TieDocuments ==
    UNION { { List([i \in 1..n |-> TiePool[ix[i]]]) :
                ix \in [1..n -> 1..Len(TiePool)] } : n \in 1..MaxRules }

\* one rule whose root is a single Condition
probe(field, op, value) ==
    Dict([name |-> Str("probe"), when |-> Cond(field, op, value),
          action |-> Str("flag"), priority |-> Num(1)])

\* field paths: originator.kyc is absent from some requests, beneficiary.kyc
\* and __always__ from all, amount.unit passes through a number; amount and
\* currency resolve
ProbeFields ==
    {"originator.kyc", "beneficiary.kyc", "__always__", "amount.unit",
     "amount", "currency"}
ProbeOps == {"gt", "lt", "eq", "in", "ne"}
ProbeValues ==
    { Num(1000), Str("EUR"), Bool(FALSE), List(<< Str("USD"), Str("EUR") >>) }

ProbeDocuments ==
    { List(<< probe(f, op, v) >>) :
        f \in ProbeFields, op \in ProbeOps, v \in ProbeValues }

\* the server with these documents posted to update_policy
NextEval ==
    \/ \E i \in 1..Len(Requests) : enforce_policy(Requests[i])
    \/ \E doc \in TieDocuments \cup ProbeDocuments : update_policy(doc)

SpecEval == Init /\ [][NextEval]_vars
(***************************************************************************)
(* Properties                                                              *)
(***************************************************************************)
\* the last handler was enforce_policy: result holds what evaluate did
Evaluated == response.op = "enforce"
\* evaluate returned a result
Returned == Evaluated /\ ~Raised(result)

RuleIdx == 1..Len(engine.rules)
\* what the root of rule i does on the transaction of the last call
Outcome(i) == Node_eval(engine.rules[i].root, tx_data)
Matched(i) == ~Raised(Outcome(i)) /\ Outcome(i).val
MatchedIdx == { i \in RuleIdx : Matched(i) }

Actions == {"allow", "block", "flag"}
Operators == {"gt", "lt", "eq", "in"}
\* the severity ranks as the specification states them
Severity(a) ==
    CASE a = "block" -> 2
      [] a = "flag"  -> 1
      [] a = "allow" -> 0
      [] OTHER -> 0 - 1

\* (severity, priority) of rule i is below that of rule j
PairBelow(i, j) ==
    LET a == engine.rules[i]
        b == engine.rules[j]
    IN  \/ Severity(a.action) < Severity(b.action)
        \/ Severity(a.action) = Severity(b.action) /\ a.priority < b.priority

DefaultEngine == PolicyEngine(load_rules_from_yaml(DEFAULT_RULES).val)

\* C1: when every condition evaluates, at least one rule matches and the
\* matched rules carry actions among allow, block, flag, evaluate returns a
\* matched rule whose (severity, priority) no matched rule exceeds, the
\* decision is that rule's action, and a matched block rule makes the
\* decision block whatever the priorities.
C1_WinnerMaximal ==
    ( /\ Evaluated
      /\ \A i \in RuleIdx : ~Raised(Outcome(i))
      /\ MatchedIdx # {}
      /\ \A i \in MatchedIdx : engine.rules[i].action \in Actions )
    => /\ ~Raised(result)
       /\ \E w \in MatchedIdx :
             /\ result.val.rule = Str(engine.rules[w].name)
             /\ result.val.decision = engine.rules[w].action
             /\ \A j \in MatchedIdx : ~PairBelow(w, j)
       /\ (\E i \in MatchedIdx : engine.rules[i].action = "block")
             => result.val.decision = "block"

\* a block rule won against a matched rule of higher priority
C1_Witness ==
    /\ Returned
    /\ result.val.decision = "block"
    /\ \E w \in MatchedIdx : \E j \in MatchedIdx :
          /\ result.val.rule = Str(engine.rules[w].name)
          /\ engine.rules[j].action \in {"allow", "flag"}
          /\ engine.rules[j].priority > engine.rules[w].priority

\* the root the loader builds for an absent or empty `when`
Synthesized(n) ==
    /\ n.kind = "Condition"
    /\ n.field = "__always__"
    /\ n.op = "eq"
    /\ n.value.t = "bool"
    /\ n.value.v

\* C2: the root synthesized for a rule without `when` evaluates to true for
\* every transaction.
C2_AlwaysNodeTrue ==
    Evaluated =>
       \A i \in RuleIdx :
          Synthesized(engine.rules[i].root) => Matched(i)

\* C3: if no rule's root evaluates to true, evaluate returns allow, no
\* winning rule and an empty matched_rules.
C3_NoMatchAllows ==
    ( /\ Evaluated
      /\ \A i \in RuleIdx : ~Raised(Outcome(i)) /\ ~Outcome(i).val )
    => /\ ~Raised(result)
       /\ result.val.decision = "allow"
       /\ result.val.rule = None
       /\ result.val.matched_rules = << >>

\* an engine with rules evaluated a transaction that none of them matched
C3_Witness ==
    /\ Returned
    /\ Len(engine.rules) > 0
    /\ MatchedIdx = {}
    /\ response.status = 200
    /\ response.decision = "ALLOW"

\* C4: the default rule set on {originator: {kyc: false}, amount: 5000,
\* currency: EUR} gives block, block_unhosted_wallets and matched_rules
\* [block_unhosted_wallets, default_allow].
C4_UnhostedScenario ==
    ( Evaluated /\ engine = DefaultEngine /\ tx_data = Requests[1] )
    => /\ ~Raised(result)
       /\ result.val.decision = "block"
       /\ result.val.rule = Str("block_unhosted_wallets")
       /\ result.val.matched_rules =
             << "block_unhosted_wallets", "default_allow" >>

\* C5: the default rule set on {originator: {kyc: true}, amount: 15000,
\* currency: EUR} gives allow with winning rule default_allow.
C5_NormalScenario ==
    ( Evaluated /\ engine = DefaultEngine /\ tx_data = Requests[2] )
    => /\ ~Raised(result)
       /\ result.val.decision = "allow"
       /\ result.val.rule = Str("default_allow")

RECURSIVE UnknownOperatorIn(_)
UnknownOperatorIn(n) ==
    IF n.kind = "Condition" THEN n.op \notin Operators
    ELSE \E k \in 1..Len(n.children) : UnknownOperatorIn(n.children[k])

\* C6: a rule specification with an operator outside gt, lt, eq, in fails to
\* load and installs nothing, so the active engine never holds a condition
\* with such an operator.
C6_UnknownOperatorRejected ==
    \A i \in RuleIdx : ~UnknownOperatorIn(engine.rules[i].root)

\* C7: a Condition whose operator is outside gt, lt, eq, in raises on every
\* transaction, a transaction without its field included.
C7_UnknownOperatorRaises ==
    Evaluated =>
       \A i \in RuleIdx :
          LET c == engine.rules[i].root IN
          (c.kind = "Condition" /\ c.op \notin Operators)
             => Raised(Condition_eval(c, tx_data))

\* the exceptions the conditions of engine e raise on transaction tx
ConditionErrors(e, tx) ==
    { Node_eval(e.rules[i].root, tx).err :
         i \in { j \in 1..Len(e.rules) : Raised(Node_eval(e.rules[j].root, tx)) } }

\* C8: an enforce call in which a condition raises fails with that error:
\* evaluate returns no result, the caller gets a failure without decision,
\* and STATS is as before the call.
C8_EvalErrorFailsCall ==
    [][ ( response'.op = "enforce" /\ ConditionErrors(engine', tx_data') # {} )
        => /\ Raised(result')
           /\ result'.err \in ConditionErrors(engine', tx_data')
           /\ response'.status = 500
           /\ "decision" \notin DOMAIN response'
           /\ STATS' = STATS ]_vars

\* an enforce call failed on a condition after another call had been counted
C8_Witness ==
    /\ Evaluated
    /\ ConditionErrors(engine, tx_data) # {}
    /\ response.status = 500
    /\ STATS.total_processed > 0

\* C9: an update that fails while loading leaves the engine as it was.
C9_FailedUpdateKeepsEngine ==
    [][ ( response'.op = "update" /\ response'.status = 400 )
        => engine' = engine ]_vars

\* an update failed on a malformed rule while a posted rule set was active
C9_Witness ==
    /\ response.op = "update"
    /\ response.status = 400
    /\ response.detail \in { "KeyError: 'name'", "KeyError: 'action'",
                             "KeyError: 'value'",
                             "ValueError: invalid literal for int()" }
    /\ engine # DefaultEngine
    /\ Len(engine.rules) > 0

\* C10: a rule specification whose action is not allow, block or flag fails
\* to load, so no rule of the active engine has another action.
C10_ActionsValid ==
    \A i \in RuleIdx : engine.rules[i].action \in Actions

\* the trace a worker has built so far is the start of the trace of the rule
\* set it read when its call began
TraceOf(t, k) ==
    LET rule == sorted(threads[t].self.rules)[k] IN
    [rule |-> rule.name, result |-> Node_eval(rule.root, threads[t].tx).val]

\* C11: while update_policy replaces the rule set, every enforce_policy call
\* in flight evaluates one rule set only, the one that was active when the
\* call read it: each trace entry written so far is the entry of that rule
\* set at that position, and the result returned is the result of
\* evaluating the transaction against that whole rule set.
C11_OneRuleSetPerEvaluation ==
    \A t \in Threads :
       /\ threads[t].pc = "loop" =>
             /\ Len(threads[t].trace) = threads[t].i - 1
             /\ Len(threads[t].trace) <= Len(threads[t].self.rules)
             /\ \A k \in 1..Len(threads[t].trace) :
                   threads[t].trace[k] = TraceOf(t, k)
       /\ threads[t].pc \in CountPcs =>
             Ok(threads[t].result) = evaluate(threads[t].self, threads[t].tx)

\* an update was installed between two iterations of a running evaluation,
\* and the new rule set has another rule at the position the loop is at
C11_Witness ==
    \E t \in Threads :
       /\ threads[t].pc = "loop"
       /\ threads[t].i > 1
       /\ threads[t].i <= Len(threads[t].ordered)
       /\ engine # threads[t].self
       /\ threads[t].i <= Len(engine.rules)
       /\ sorted(engine.rules)[threads[t].i] # threads[t].ordered[threads[t].i]

\* C18: once no enforce_policy call is running, total_processed is the
\* number of calls that returned a decision and is the sum of the three
\* decision counters.
C18_NoLostIncrement ==
    Running = {} =>
       /\ STATS.total_processed = SumReturned(Threads)
       /\ STATS.total_processed =
             STATS.decisions.BLOCK + STATS.decisions.FLAG + STATS.decisions.ALLOW

\* the orders in which the rules of the engine can be listed
Perms ==
    { p \in [RuleIdx -> RuleIdx] : \A a, b \in RuleIdx : a # b => p[a] # p[b] }
\* rule a may stand before rule b: higher priority, or equal priority and a
\* name that is not larger
MayPrecede(a, b) ==
    \/ a.priority > b.priority
    \/ a.priority = b.priority /\ StrRank(a.name) <= StrRank(b.name)
NamesUnique ==
    \A a, b \in RuleIdx : a # b => engine.rules[a].name # engine.rules[b].name

\* C12: a completed evaluation returns a trace with one entry per rule of the
\* engine, each with the rule's name and the value of its root, listed by
\* descending priority and then ascending name; with the rules loaded in any
\* other order the trace is the same (rules of one rule set are told apart by
\* their names).
C12_TraceInPriorityNameOrder ==
    Returned =>
       /\ Len(result.val.trace) = Len(engine.rules)
       /\ \E p \in Perms :
             /\ \A k \in RuleIdx :
                   result.val.trace[k] =
                      [rule |-> engine.rules[p[k]].name, result |-> Matched(p[k])]
             /\ \A k \in RuleIdx : \A l \in RuleIdx :
                   k < l => MayPrecede(engine.rules[p[k]], engine.rules[p[l]])
       /\ NamesUnique =>
             \A p \in Perms :
                evaluate(PolicyEngine([k \in RuleIdx |-> engine.rules[p[k]]]),
                         tx_data).val.trace = result.val.trace

\* rules of equal priority were loaded with the larger name first, and the
\* trace lists them the other way round
C12_Witness ==
    /\ Returned
    /\ NamesUnique
    /\ \E a, b \in RuleIdx :
          /\ a < b
          /\ engine.rules[a].priority = engine.rules[b].priority
          /\ StrLess(engine.rules[b].name, engine.rules[a].name)
          /\ \E k, l \in RuleIdx :
                /\ k < l
                /\ result.val.trace[k].rule = engine.rules[b].name
                /\ result.val.trace[l].rule = engine.rules[a].name

\* the dotted path leads to a value: every key is present and every value on
\* the way is a mapping
RECURSIVE Resolves(_, _, _)
Resolves(current, parts, k) ==
    IF k > Len(parts) THEN TRUE
    ELSE /\ current.t = "dict"
         /\ parts[k] \in DOMAIN current.v
         /\ Resolves(current.v[parts[k]], parts, k + 1)

\* the Conditions of a node
RECURSIVE ConditionsOf(_)
ConditionsOf(n) ==
    IF n.kind = "Condition" THEN { n }
    ELSE UNION { ConditionsOf(n.children[k]) : k \in 1..Len(n.children) }

\* the Conditions of the engine with one of the four operators whose path
\* does not resolve in the transaction of the last call
Unresolved ==
    { c \in UNION { ConditionsOf(engine.rules[i].root) : i \in RuleIdx } :
         /\ c.op \in Operators
         /\ ~Resolves(tx_data, split(c.field), 1) }

\* C13: a Condition with operator gt, lt, eq or in whose field path does not
\* resolve in the transaction (a key is absent or a value on the way is not a
\* mapping) evaluates to false and does not raise, whatever its operand; a
\* rule whose root is such a Condition is traced as not matched.
C13_MissingFieldIsFalse ==
    Evaluated =>
       /\ \A c \in Unresolved : Condition_eval(c, tx_data) = Ok(FALSE)
       /\ \A i \in RuleIdx :
             (Len(engine.rules) = 1 /\ engine.rules[i].root \in Unresolved) =>
                /\ Returned
                /\ result.val.trace = << [rule |-> engine.rules[i].name,
                                          result |-> FALSE] >>
                /\ result.val.matched_rules = << >>

\* an ordering operator with a string operand met a transaction whose
\* originator has no kyc key
C13_Witness ==
    /\ Evaluated
    /\ \E c \in Unresolved :
          c.op = "gt" /\ c.field = "originator.kyc" /\ c.value.t = "str"

\* the matched rules whose (severity, priority) no matched rule exceeds
Top == { i \in MatchedIdx : \A j \in MatchedIdx : ~PairBelow(i, j) }

\* C14: when matched rules of different names share the maximal (severity,
\* priority), the winning rule is the one among them with the smallest name,
\* which is the earliest of them in the (priority descending, name
\* ascending) order, in whatever order the rules were loaded.
C14_TieGoesToSmallestName ==
    ( /\ Returned
      /\ \A i \in MatchedIdx : engine.rules[i].action \in Actions
      /\ \E i, j \in Top : engine.rules[i].name # engine.rules[j].name )
    => \E w \in Top :
          /\ result.val.rule = Str(engine.rules[w].name)
          /\ result.val.decision = engine.rules[w].action
          /\ \A j \in Top : StrRank(engine.rules[w].name) <= StrRank(engine.rules[j].name)
          /\ \A j \in Top :
                engine.rules[j].name # engine.rules[w].name =>
                   SortKeyLess(engine.rules[w], engine.rules[j])

\* two tied rules matched and the winner was loaded after the other one
C14_Witness ==
    /\ Returned
    /\ \E w, j \in Top :
          /\ j < w
          /\ engine.rules[w].name # engine.rules[j].name
          /\ result.val.rule = Str(engine.rules[w].name)

\* C15: an evaluation leaves the engine's rules and their order as they
\* were, so that every transaction evaluates after the call as it did before
\* it (decision, winning rule, matched_rules and trace, or the same error),
\* and the transaction of the call, evaluated again right away, gives the
\* result it gave.
C15_EvaluateLeavesEngine ==
    [][ response'.op = "enforce" =>
           /\ engine'.rules = engine.rules
           /\ \A i \in 1..Len(Requests) :
                 evaluate(engine', Requests[i]) = evaluate(engine, Requests[i])
           /\ evaluate(engine', tx_data') = result'
           /\ (Evaluated /\ tx_data' = tx_data) => result' = result ]_vars

\* an evaluation completed on an engine whose rules were loaded in another
\* order than the one they are evaluated in, with two rules matched
C15_Witness ==
    /\ Returned
    /\ engine.rules # sorted(engine.rules)
    /\ Len(result.val.matched_rules) >= 2
    /\ STATS.total_processed >= 1

\* C16: no installed engine holds two rules with the same name.
C16_RuleNamesUnique ==
    \A a, b \in RuleIdx : a # b => engine.rules[a].name # engine.rules[b].name

\* the names of the trace entries whose result is true, in trace order
RECURSIVE TrueNames(_, _)
TrueNames(trace, k) ==
    IF k > Len(trace) THEN << >>
    ELSE (IF trace[k].result THEN << trace[k].rule >> ELSE << >>)
         \o TrueNames(trace, k + 1)

\* C17: in every returned result matched_rules lists the names of the trace
\* entries with result true, in trace order; a winning rule is one of
\* matched_rules, and there is no winning rule exactly when matched_rules is
\* empty.
C17_MatchedRulesFollowTrace ==
    Returned =>
       /\ result.val.matched_rules = TrueNames(result.val.trace, 1)
       /\ result.val.rule # None =>
             \E k \in 1..Len(result.val.matched_rules) :
                result.val.matched_rules[k] = result.val.rule.v
       /\ result.val.rule = None <=> result.val.matched_rules = << >>

\* two rules of different names matched, one did not, and a rule won
C17_Witness ==
    /\ Returned
    /\ Len(result.val.matched_rules) = 2
    /\ result.val.matched_rules[1] # result.val.matched_rules[2]
    /\ \E k \in 1..Len(result.val.trace) : ~result.val.trace[k].result
    /\ result.val.rule # None
=============================================================================
